---- MODULE Spec2Model ----
(***************************************************************************)
(* Object memory of the primordialsoup VM: tagged references, object       *)
(* headers, per-kind pointer ranges (vm/object.h), and the heap built on   *)
(* them (allocation, scavenge, walk).  The 32-bit build is modelled        *)
(* (ARCH_IS_32_BIT: kWordSize = 4); memory is an array of machine words    *)
(* indexed by byte address, and every object is laid out in it exactly as  *)
(* the C++ classes lay out their fields.                                   *)
(***************************************************************************)
EXTENDS Integers, Sequences, FiniteSets, TLC

(***************************************************************************)
(* vm/globals.h                                                            *)
(***************************************************************************)
kWordSize == 4
kWordSizeLog2 == 2
kBitsPerByte == 8
kBitsPerWord == kWordSize * kBitsPerByte
kSmiBits == kBitsPerWord - 2
kSmiMax == (2 ^ kSmiBits) - 1
kSmiMin == -(2 ^ kSmiBits)
kMaxInt32 == 2147483647
kMinInt32 == -kMaxInt32 - 1

(***************************************************************************)
(* vm/object.h: alignment, tags, header bits, class ids                    *)
(***************************************************************************)
kNewObjectAlignmentOffset == kWordSize
kOldObjectAlignmentOffset == 0
kObjectAlignment == 2 * kWordSize
kObjectAlignmentLog2 == kWordSizeLog2 + 1
kObjectAlignmentMask == kObjectAlignment - 1

kSmiTag == 0
kHeapObjectTag == 1
kSmiTagMask == 1
kSmiTagShift == 1

kMarkBit == 0
kCanonicalBit == 2
kSizeFieldOffset == 8
kSizeFieldSize == 8
kClassIdFieldOffset == 16
kClassIdFieldSize == 16

kIllegalCid == 0
kForwardingCorpseCid == 1
kSmiCid == 2
kByteArrayCid == 6
kArrayCid == 9
kWeakArrayCid == 10
kEphemeronCid == 11
kActivationCid == 12
kClosureCid == 13
kFirstRegularObjectCid == 14

kMaxTemps == 35

(***************************************************************************)
(* Machine-word arithmetic.  A word is held as the signed value of its     *)
(* 32 bits (intptr_t); header words stay non-negative because the class    *)
(* ids used are below 2^15.                                                *)
(***************************************************************************)
Pow2(n) == 2 ^ n

\* x & mask for a mask of the form 2^k - 1, two's complement (x may be < 0)
LowBits(x, k) == x % Pow2(k)

\* bit k of x, two's complement
Bit(x, k) == (x \div Pow2(k)) % 2

\* The 32-bit wrap of 2 * v for any intptr_t v, without leaving the 32-bit
\* range on the way (C++20 semantics of v << 1).
ShiftLeft1(v) ==
  IF v > kSmiMax THEN 2 * (v - Pow2(kSmiBits)) - Pow2(kSmiBits) - Pow2(kSmiBits)
  ELSE IF v < kSmiMin THEN 2 * (v + Pow2(kSmiBits)) + Pow2(kSmiBits) + Pow2(kSmiBits)
  ELSE 2 * v

\* BitField<T, position, size> (vm/bitfield.h)
BitFieldIsValid(size, v) == v >= 0 /\ v < Pow2(size)
BitFieldDecode(pos, size, w) == (w \div Pow2(pos)) % Pow2(size)
BitFieldUpdate(pos, size, v, w) ==
  w - BitFieldDecode(pos, size, w) * Pow2(pos) + (v % Pow2(size)) * Pow2(pos)

(***************************************************************************)
(* Tagged references (class Object, class SmallInteger)                    *)
(***************************************************************************)
IsHeapObject(r) == LowBits(r, 1) = kHeapObjectTag
IsSmallInteger(r) == LowBits(r, 1) = kSmiTag

IsOldObject(r) ==
  Bit(r, kWordSizeLog2) * kNewObjectAlignmentOffset = kOldObjectAlignmentOffset
IsNewObject(r) ==
  Bit(r, kWordSizeLog2) * kNewObjectAlignmentOffset = kNewObjectAlignmentOffset

IsImmediateOrOldObjectByTag(r) == ~(Bit(r, 0) = 1)

\* (addr & kNewObjectBits) != kNewObjectBits, kNewObjectBits = kWordSize | 1
IsImmediateOrOldObject(r) ==
  ~(Bit(r, kWordSizeLog2) = 1 /\ Bit(r, 0) = 1)

IsSmiValue(v) == v >= kSmiMin /\ v <= kSmiMax

SmallIntegerNewMissingTag(v) == ShiftLeft1(v) + 1

\* SmallInteger::New: value << kSmiTagShift, no range check
SmallIntegerNew(v) == ShiftLeft1(v)

\* SmallInteger::value: arithmetic shift right by kSmiTagShift
SmallIntegerValue(r) == r \div Pow2(kSmiTagShift)

Addr(r) == r - kHeapObjectTag
FromAddr(raw) == raw + kHeapObjectTag

(***************************************************************************)
(* Bounds of the model                                                     *)
(***************************************************************************)
\* alignment units (2 words) in each new-space semispace
SemiUnits == 9
\* objects the mutator allocates in one run
MaxAllocs == 3
\* largest element count of an Array or WeakArray the mutator allocates
MaxElems == 1
\* references the mutator has in place at a time (object slots and roots)
MaxEdges == 4
\* objects that are asked for their identity hash in one run
MaxHashed == 2
\* collections in one run
MaxCollections == 2
\* root slots the interpreter registers
NumRoots == 2

(***************************************************************************)
(* Address space: one old-space page holding nil, then the two new-space   *)
(* semispaces.  Old objects start at addresses = 0 mod kObjectAlignment,   *)
(* new objects at addresses = kNewObjectAlignmentOffset mod                *)
(* kObjectAlignment (enum ObjectAlignment).                                *)
(***************************************************************************)
OldStart == kObjectAlignment
OldEnd == OldStart + kObjectAlignment
SemiBytes == SemiUnits * kObjectAlignment
SemiStart(s) == OldEnd + kNewObjectAlignmentOffset + s * SemiBytes
SemiEnd(s) == SemiStart(s) + SemiBytes
MemEnd == SemiEnd(1)
WordAddrs == {a \in 0 .. (MemEnd - 1) : a % kWordSize = 0}

\* ObjectStore::nil_obj: a regular object without slots, in old space
nil == FromAddr(OldStart)

VARIABLES
  mem,        \* heap memory: word address -> word
  top,        \* allocation frontier of the current semispace
  space,      \* which semispace is in use (0 or 1)
  roots,      \* the interpreter's root slots
  pc,         \* "mutator", or the phase of the running scavenge
  gc,         \* the scavenger's registers: scan pointer and pending lists
  nGC,        \* collections completed
  nEdges,     \* object slots that hold a stored reference plus roots that are not nil
  lim,        \* the operation mix of this run (see Profiles)
  ident,      \* history: i-th allocated object -> its current reference, 0 once collected
  asked,      \* history: i-th allocated object -> class id passed to allocate
  firstHash,  \* history: i-th allocated object -> result of its first identity_hash
              \* query, -1 before it
  lastHash,   \* history: i-th allocated object -> result of its latest query
  pre,        \* history: memory and roots when the last scavenge started
  walked,     \* history: what the last Walk visited, NotWalked otherwise
  made,       \* the last small integer made: argument, word, decoded value
  laid,       \* the last object laid out alone: class id, count asked for, memory
  probe,      \* the last operation applied to a word or a string on its own
  act,        \* an activation on its own: memory, the last stack operation
  sleep,      \* a call of OS::SleepMicros: the request, what nanosleep was passed
  search      \* a run of the analyzer's trace: queue, seen addresses, what was dequeued

(***************************************************************************)
(* class Object: header and identity hash                                  *)
(***************************************************************************)
SizeFieldDecode(w) == BitFieldDecode(kSizeFieldOffset, kSizeFieldSize, w)
ClassIdFieldDecode(w) == BitFieldDecode(kClassIdFieldOffset, kClassIdFieldSize, w)

is_marked(m, r) == BitFieldDecode(kMarkBit, 1, m[Addr(r)]) = 1
is_canonical(m, r) == BitFieldDecode(kCanonicalBit, 1, m[Addr(r)]) = 1
set_is_marked(m, r, value) ==
  [m EXCEPT ![Addr(r)] = BitFieldUpdate(kMarkBit, 1, IF value THEN 1 ELSE 0, @)]

set_is_canonicalAtMarkBit(m, r, value) ==
  [m EXCEPT ![Addr(r)] = BitFieldUpdate(kMarkBit, 1, IF value THEN 1 ELSE 0, @)]

set_is_canonical(m, r, value) ==
  [m EXCEPT ![Addr(r)] = BitFieldUpdate(kCanonicalBit, 1, IF value THEN 1 ELSE 0, @)]
heap_size(m, r) == SizeFieldDecode(m[Addr(r)]) * Pow2(kObjectAlignmentLog2)

cid(m, r) == ClassIdFieldDecode(m[Addr(r)])

set_cidIgnored(m, r, value) == m

set_cid(m, r, value) ==
  [m EXCEPT ![Addr(r)] =
     BitFieldUpdate(kClassIdFieldOffset, kClassIdFieldSize, value, @)]

identity_hash(m, r) == m[Addr(r) + kWordSize]

set_identity_hashIgnored(m, r, value) == m

set_identity_hash(m, r, value) == [m EXCEPT ![Addr(r) + kWordSize] = value]

IsForwardingCorpseNever(m, r) == FALSE

IsForwardingCorpse(m, r) == IsHeapObject(r) /\ cid(m, r) = kForwardingCorpseCid
IsArray(m, r) == IsHeapObject(r) /\ cid(m, r) = kArrayCid
IsWeakArray(m, r) == IsHeapObject(r) /\ cid(m, r) = kWeakArrayCid
IsEphemeron(m, r) == IsHeapObject(r) /\ cid(m, r) = kEphemeronCid
IsRegularObject(m, r) == IsHeapObject(r) /\ cid(m, r) >= kFirstRegularObjectCid

ClassId(m, r) == IF IsSmallInteger(r) THEN kSmiCid ELSE cid(m, r)

\* Utils::RoundUp(size, kObjectAlignment)
AllocationSize(size) ==
  ((size + kObjectAlignment - 1) \div kObjectAlignment) * kObjectAlignment

\* the assertions of Object::InitializeObject on its arguments
InitializeObjectAsserts(c, size) ==
  /\ c # kIllegalCid
  /\ size % kObjectAlignment = 0
  /\ size > 0
  /\ ~BitFieldIsValid(kSizeFieldSize, size \div Pow2(kObjectAlignmentLog2))
       => c < kFirstRegularObjectCid

InitializeObjectTruncatedSize(m, raw, c, size) ==
  LET size_tag == LowBits(size \div Pow2(kObjectAlignmentLog2), kSizeFieldSize)
      header == BitFieldUpdate(kClassIdFieldOffset, kClassIdFieldSize, c,
                  BitFieldUpdate(kSizeFieldOffset, kSizeFieldSize, size_tag, 0))
  IN [m EXCEPT ![raw] = header, ![raw + kWordSize] = 0]

InitializeObjectKeepHash(m, raw, c, size) ==
  LET size_tag0 == size \div Pow2(kObjectAlignmentLog2)
      size_tag == IF BitFieldIsValid(kSizeFieldSize, size_tag0) THEN size_tag0 ELSE 0
      header == BitFieldUpdate(kClassIdFieldOffset, kClassIdFieldSize, c,
                  BitFieldUpdate(kSizeFieldOffset, kSizeFieldSize, size_tag, 0))
  IN [m EXCEPT ![raw] = header]

\* Object::InitializeObject: the memory after it; the object is FromAddr(raw)
InitializeObject(m, raw, c, size) ==
  LET size_tag0 == size \div Pow2(kObjectAlignmentLog2)
      size_tag == IF BitFieldIsValid(kSizeFieldSize, size_tag0) THEN size_tag0 ELSE 0
      header == BitFieldUpdate(kClassIdFieldOffset, kClassIdFieldSize, c,
                  BitFieldUpdate(kSizeFieldOffset, kSizeFieldSize, size_tag, 0))
  IN [m EXCEPT ![raw] = header, ![raw + kWordSize] = 0]

\* sizeof(Object): header_ and identity_hash_
SizeofObject == 2 * kWordSize

(***************************************************************************)
(* class ForwardingCorpse: header_, target_, overflow_size_                *)
(***************************************************************************)
targetOfSelf(m, r) == r

target(m, r) == m[Addr(r) + kWordSize]

set_targetNil(m, r, value) == [m EXCEPT ![Addr(r) + kWordSize] = FromAddr(kObjectAlignment)]

set_targetUntagged(m, r, value) == [m EXCEPT ![Addr(r) + kWordSize] = Addr(value)]

set_target(m, r, value) == [m EXCEPT ![Addr(r) + kWordSize] = value]
overflow_size(m, r) == m[Addr(r) + 2 * kWordSize]
set_overflow_size(m, r, value) == [m EXCEPT ![Addr(r) + 2 * kWordSize] = value]

(***************************************************************************)
(* class Array, class WeakArray: size_, elements_[]                        *)
(***************************************************************************)
ArraySizeAddr(r) == Addr(r) + SizeofObject
ArraySize(m, r) == SmallIntegerValue(m[ArraySizeAddr(r)])
ArrayFrom(m, r) == Addr(r) + SizeofObject + kWordSize

ArrayTo(m, r) == ArrayFrom(m, r) + (ArraySize(m, r) - 1) * kWordSize

WeakArraySize(m, r) == SmallIntegerValue(m[ArraySizeAddr(r)])
WeakArrayFrom(m, r) == Addr(r) + SizeofObject + kWordSize
WeakArrayTo(m, r) == WeakArrayFrom(m, r) + (WeakArraySize(m, r) - 1) * kWordSize

\* sizeof(Array) == sizeof(WeakArray): Object plus size_
SizeofArray == SizeofObject + kWordSize

(***************************************************************************)
(* class Ephemeron: key_, value_, finalizer_                               *)
(***************************************************************************)
key_ptr(r) == Addr(r) + SizeofObject
value_ptr(r) == Addr(r) + SizeofObject + kWordSize
finalizer_ptr(r) == Addr(r) + SizeofObject + 2 * kWordSize
EphemeronFrom(m, r) == key_ptr(r)
EphemeronTo(m, r) == finalizer_ptr(r)
SizeofEphemeron == SizeofObject + 3 * kWordSize

(***************************************************************************)
(* class RegularObject: slots_[]                                           *)
(***************************************************************************)
RegularObjectFrom(m, r) == Addr(r) + SizeofObject
RegularObjectTo(m, r) ==
  LET num_slots == (heap_size(m, r) - SizeofObject) \div Pow2(kWordSizeLog2)
  IN RegularObjectFrom(m, r) + (num_slots - 1) * kWordSize

(***************************************************************************)
(* class Activation: sender_, bci_, method_, closure_, receiver_,          *)
(* stack_depth_, temps_[kMaxTemps]                                         *)
(***************************************************************************)
stack_depth_ptr(r) == Addr(r) + SizeofObject + 5 * kWordSize
temp_ptr(r, index) == Addr(r) + SizeofObject + 6 * kWordSize + index * kWordSize
stack_depth(m, r) == SmallIntegerValue(m[stack_depth_ptr(r)])
ActivationFrom(m, r) == Addr(r) + SizeofObject
ActivationToAllTemps(m, r) == temp_ptr(r, kMaxTemps - 1)

ActivationTo(m, r) == temp_ptr(r, stack_depth(m, r) - 1)
SizeofActivation == SizeofObject + 6 * kWordSize + kMaxTemps * kWordSize

(***************************************************************************)
(* class Closure: num_copied_, defining_activation_, initial_bci_,         *)
(* num_args_, copied_[]                                                    *)
(***************************************************************************)
num_copied_ptr(r) == Addr(r) + SizeofObject
copied_ptr(r, index) == Addr(r) + SizeofObject + 4 * kWordSize + index * kWordSize
num_copied(m, r) == SmallIntegerValue(m[num_copied_ptr(r)])
ClosureFrom(m, r) == num_copied_ptr(r)
ClosureTo(m, r) == copied_ptr(r, num_copied(m, r) - 1)
SizeofClosure == SizeofObject + 4 * kWordSize

(***************************************************************************)
(* Object::Pointers and Object::HeapSize                                   *)
(***************************************************************************)
\* the inclusive range <<from, to>> of the reference slots of r
Pointers(m, r) ==
  LET c == cid(m, r) IN
  CASE c = kArrayCid -> <<ArrayFrom(m, r), ArrayTo(m, r)>>
    [] c = kWeakArrayCid -> <<WeakArrayFrom(m, r), WeakArrayTo(m, r)>>
    [] c = kEphemeronCid -> <<EphemeronFrom(m, r), EphemeronTo(m, r)>>
    [] c = kActivationCid -> <<ActivationFrom(m, r), ActivationTo(m, r)>>
    [] c = kClosureCid -> <<ClosureFrom(m, r), ClosureTo(m, r)>>
    [] c >= kFirstRegularObjectCid -> <<RegularObjectFrom(m, r), RegularObjectTo(m, r)>>
    [] OTHER -> <<Addr(r) + SizeofObject, Addr(r) + SizeofObject - kWordSize>>

\* the slot addresses from, from + word, ..., to
SlotRange(from, to) == {a \in from .. to : (a - from) % kWordSize = 0}
PointerSlots(m, r) == SlotRange(Pointers(m, r)[1], Pointers(m, r)[2])

\* Object::HeapSizeFromClass for the kinds whose size comes from a count
HeapSizeFromClass(m, r) ==
  LET c == cid(m, r) IN
  CASE c = kArrayCid -> AllocationSize(SizeofArray + ArraySize(m, r) * kWordSize)
    [] c = kWeakArrayCid -> AllocationSize(SizeofArray + WeakArraySize(m, r) * kWordSize)
    [] c = kEphemeronCid -> AllocationSize(SizeofEphemeron)
    [] c = kActivationCid -> AllocationSize(SizeofActivation)
    [] c = kClosureCid -> AllocationSize(SizeofClosure + num_copied(m, r) * kWordSize)
    [] c = kForwardingCorpseCid -> overflow_size(m, r)
    [] OTHER -> 0

HeapSizeTooLong(m, r) == heap_size(m, r) + kObjectAlignment

HeapSize(m, r) ==
  IF heap_size(m, r) # 0 THEN heap_size(m, r) ELSE HeapSizeFromClass(m, r)

(***************************************************************************)
(* The mutator: allocation, stores, roots, identity hashes                 *)
(***************************************************************************)
NotWalked == <<0>>
NoneMade == [step |-> "none", v |-> 0, word |-> 0, value |-> 0]
NoneLaid == [c |-> kIllegalCid, n |-> 0, obj |-> 0, m |-> <<>>, size |-> 0, ok |-> TRUE]
Unused == [step |-> "none"]
pureVars == <<made, laid, probe, act, sleep, search>>
NoSnapshot == [taken |-> FALSE, mem |-> <<>>, roots |-> <<>>, objs |-> {}]
IdleGC == [scan |-> 0, weak |-> <<>>, eph |-> <<>>]

\* The operation mixes explored: runs that build a graph of up to MaxAllocs
\* objects and then collect it once, and runs on one object fewer in which
\* the mutator also queries identity hashes, walks the heap, and goes on
\* after a collection, up to MaxCollections collections.
Profiles ==
  { [allocs |-> MaxAllocs, edges |-> MaxEdges, hashed |-> 0, gcs |-> 1,
     walk |-> FALSE, after |-> FALSE],
    [allocs |-> MaxAllocs - 1, edges |-> MaxEdges - 2, hashed |-> MaxHashed,
     gcs |-> MaxCollections, walk |-> TRUE, after |-> TRUE] }

\* the mutator runs between collections
MutatorRuns == pc = "mutator" /\ (nGC = 0 \/ lim.after)

\* the references the mutator can still name
Known == {ident[i] : i \in 1 .. Len(ident)} \ {0}

\* Heap::Allocate(size, cid): the memory after bumping the frontier t by
\* size: the payload zeroed, header and identity hash initialised
AllocateIn(m, t, size, c) ==
  InitializeObject(
    [a \in WordAddrs |->
       IF a >= t + SizeofObject /\ a < t + size THEN 0 ELSE m[a]],
    t, c, size)

\* the allocations (class id, bytes before rounding, element count) the
\* interpreter asks for
AllocRequests ==
  {<<kArrayCid, SizeofArray + n * kWordSize, n>> : n \in 1 .. MaxElems}
  \cup {<<kWeakArrayCid, SizeofArray + n * kWordSize, n>> : n \in 1 .. MaxElems}
  \cup {<<kEphemeronCid, SizeofEphemeron, 0>>}

Allocate(c, bytes, n) ==
  LET size == AllocationSize(bytes)
      obj == FromAddr(top)
      m1 == AllocateIn(mem, top, size, c)
      \* the caller stores the element count of an array it allocated
      m2 == IF c \in {kArrayCid, kWeakArrayCid}
            THEN [m1 EXCEPT ![ArraySizeAddr(obj)] = SmallIntegerNew(n)]
            ELSE m1
  IN /\ MutatorRuns
     /\ Len(ident) < lim.allocs
     /\ top + size <= SemiEnd(space)
     /\ mem' = m2
     /\ top' = top + size
     /\ ident' = Append(ident, obj)
     /\ asked' = Append(asked, c)
     /\ firstHash' = Append(firstHash, -1)
     /\ lastHash' = Append(lastHash, -1)
     /\ pre' = NoSnapshot
     /\ walked' = NotWalked
     /\ UNCHANGED <<space, roots, pc, gc, nGC, nEdges, lim, pureVars>>

\* the slots the mutator stores into: every reference slot but an
\* ephemeron's finalizer
StoreSlots(m, r) ==
  IF cid(m, r) = kEphemeronCid THEN {key_ptr(r), value_ptr(r)} ELSE PointerSlots(m, r)

\* Object::StorePointer
StorePointer(m, addr, value) == [m EXCEPT ![addr] = value]

Store(obj, addr, value) ==
  /\ MutatorRuns
  /\ mem[addr] # value
  /\ nEdges' = IF mem[addr] = 0 THEN nEdges + 1 ELSE nEdges
  /\ nEdges' <= lim.edges
  /\ mem' = StorePointer(mem, addr, value)
  /\ pre' = NoSnapshot
  /\ walked' = NotWalked
  /\ UNCHANGED <<top, space, roots, pc, gc, nGC, lim, pureVars, ident, asked, firstHash, lastHash>>

SetRoot(i, value) ==
  /\ MutatorRuns
  /\ roots[i] # value
  /\ nEdges' = nEdges + (IF roots[i] = nil THEN 1 ELSE 0) - (IF value = nil THEN 1 ELSE 0)
  /\ nEdges' <= lim.edges
  /\ roots' = [roots EXCEPT ![i] = value]
  /\ pre' = NoSnapshot
  /\ walked' = NotWalked
  /\ UNCHANGED <<mem, top, space, pc, gc, nGC, lim, pureVars, ident, asked, firstHash, lastHash>>

\* a fresh identity hash: pointer-derived bits, non-zero, in the positive
\* small-integer range
NewIdentityHash(r) == ((Addr(r) \div kObjectAlignment) % kSmiMax) + 1

\* the identity-hash primitive: install a hash when the word is still zero,
\* answer the cached word
IdentityHash(i) ==
  LET obj == ident[i]
      m1 == IF identity_hash(mem, obj) = 0
            THEN set_identity_hash(mem, obj, NewIdentityHash(obj))
            ELSE mem
      h == identity_hash(m1, obj)
  IN /\ MutatorRuns
     /\ obj # 0
     /\ \/ firstHash[i] # -1
        \/ Cardinality({j \in 1 .. Len(ident) : firstHash[j] # -1}) < lim.hashed
     /\ mem' = m1
     /\ firstHash' = IF firstHash[i] = -1 THEN [firstHash EXCEPT ![i] = h] ELSE firstHash
     /\ lastHash' = [lastHash EXCEPT ![i] = h]
     /\ pre' = NoSnapshot
     /\ walked' = NotWalked
     /\ UNCHANGED <<top, space, roots, pc, gc, nGC, nEdges, lim, pureVars, ident, asked>>

(***************************************************************************)
(* The scavenger: a Cheney copy of new space into the other semispace.     *)
(* An object is "reached" once a forwarding corpse (class id 1, target =   *)
(* the copy) has replaced it.                                              *)
(***************************************************************************)
CopyWords(m, from, to, size) ==
  [a \in WordAddrs |-> IF a >= to /\ a < to + size THEN m[from + (a - to)] ELSE m[a]]

\* Scavenge one slot holding w: the memory, frontier and slot value after it
ScavengePointer(m, t, w) ==
  IF IsImmediateOrOldObject(w) THEN [mem |-> m, top |-> t, word |-> w]
  ELSE IF IsForwardingCorpse(m, w) THEN [mem |-> m, top |-> t, word |-> target(m, w)]
  ELSE LET size == HeapSize(m, w)
           new == FromAddr(t)
           m1 == CopyWords(m, Addr(w), t, size)
           m2 == set_target(set_cid(m1, w, kForwardingCorpseCid), w, new)
           m3 == IF heap_size(m, w) = 0 THEN set_overflow_size(m2, w, size) ELSE m2
       IN [mem |-> m3, top |-> t + size, word |-> new]

RECURSIVE ScavengeRange(_, _, _, _)
\* for (ptr = from; ptr <= to; ptr++) ScavengePointer(ptr)
ScavengeRange(m, t, from, to) ==
  IF from > to THEN [mem |-> m, top |-> t]
  ELSE LET r == ScavengePointer(m, t, m[from])
       IN ScavengeRange([r.mem EXCEPT ![from] = r.word], r.top, from + kWordSize, to)

RECURSIVE ScavengeRootsFrom(_, _, _, _)
ScavengeRootsFrom(m, t, rs, i) ==
  IF i > Len(rs) THEN [mem |-> m, top |-> t, roots |-> rs]
  ELSE LET r == ScavengePointer(m, t, rs[i])
       IN ScavengeRootsFrom(r.mem, r.top, [rs EXCEPT ![i] = r.word], i + 1)

\* is the referent of w known to survive?
IsReached(m, w) == IsImmediateOrOldObject(w) \/ IsForwardingCorpse(m, w)

StartScavenge ==
  /\ pc = "mutator"
  /\ nGC < lim.gcs
  /\ pre' = [taken |-> TRUE, mem |-> mem, roots |-> roots, objs |-> Known]
  /\ space' = 1 - space
  /\ top' = SemiStart(1 - space)
  /\ gc' = [scan |-> SemiStart(1 - space), weak |-> <<>>, eph |-> <<>>]
  /\ pc' = "roots"
  /\ walked' = NotWalked
  /\ UNCHANGED <<mem, roots, nGC, nEdges, lim, pureVars, ident, asked, firstHash, lastHash>>

ScavengeRoots ==
  LET r == ScavengeRootsFrom(mem, top, roots, 1)
  IN /\ pc = "roots"
     /\ mem' = r.mem
     /\ top' = r.top
     /\ roots' = r.roots
     /\ pc' = "scan"
     /\ UNCHANGED <<space, gc, nGC, nEdges, lim, pureVars, ident, asked, firstHash, lastHash, pre, walked>>

\* Scan the copy at the scan pointer.  A weak array goes onto the weak list
\* with its elements untouched; an ephemeron whose key is not reached yet
\* goes onto the unprocessed list; every other object has its pointers
\* range scavenged.
ScanObject ==
  LET obj == FromAddr(gc.scan)
      p == Pointers(mem, obj)
      strong == ScavengeRange(mem, top, p[1], p[2])
  IN /\ pc = "scan"
     /\ gc.scan < top
     /\ IF IsWeakArray(mem, obj)
        THEN /\ gc' = [gc EXCEPT !.scan = @ + HeapSize(mem, obj),
                                 !.weak = Append(@, obj)]
             /\ UNCHANGED <<mem, top>>
        ELSE IF IsEphemeron(mem, obj) /\ ~IsReached(mem, mem[key_ptr(obj)])
        THEN /\ gc' = [gc EXCEPT !.scan = @ + HeapSize(mem, obj),
                                 !.eph = Append(@, obj)]
             /\ UNCHANGED <<mem, top>>
        ELSE /\ gc' = [gc EXCEPT !.scan = @ + HeapSize(mem, obj)]
             /\ mem' = strong.mem
             /\ top' = strong.top
     /\ UNCHANGED <<space, roots, pc, nGC, nEdges, lim, pureVars, ident, asked, firstHash, lastHash, pre, walked>>

RECURSIVE EphemeronListPass(_, _, _, _)
\* One iteration over the unprocessed list: an ephemeron whose key has been
\* reached has key, value and finalizer scavenged and leaves the list.
EphemeronListPass(m, t, list, kept) ==
  IF list = <<>> THEN [mem |-> m, top |-> t, eph |-> kept]
  ELSE LET e == Head(list) IN
       IF IsReached(m, m[key_ptr(e)])
       THEN LET r == ScavengeRange(m, t, EphemeronFrom(m, e), EphemeronTo(m, e))
            IN EphemeronListPass(r.mem, r.top, Tail(list), kept)
       ELSE EphemeronListPass(m, t, Tail(list), Append(kept, e))

\* the fixed point taken to be reached at any time
AtFixedPointAlways == TRUE

AtFixedPoint ==
  /\ gc.scan = top
  /\ \A i \in 1 .. Len(gc.eph) : ~IsReached(mem, mem[key_ptr(gc.eph[i])])

ProcessEphemeronList ==
  LET r == EphemeronListPass(mem, top, gc.eph, <<>>)
  IN /\ pc = "scan"
     /\ gc.scan = top
     /\ ~AtFixedPoint
     /\ mem' = r.mem
     /\ top' = r.top
     /\ gc' = [gc EXCEPT !.eph = r.eph]
     /\ UNCHANGED <<space, roots, pc, nGC, nEdges, lim, pureVars, ident, asked, firstHash, lastHash, pre, walked>>

RECURSIVE MournEphemeronList(_, _)
\* an ephemeron whose key was never reached loses key and value
MournEphemeronList(m, list) ==
  IF list = <<>> THEN m
  ELSE LET e == Head(list)
       IN MournEphemeronList([m EXCEPT ![key_ptr(e)] = nil, ![value_ptr(e)] = nil],
                             Tail(list))

\* a weak slot after the scan: the forwarded referent, or nil when the
\* referent was not reached
MournWeakPointer(m, w) ==
  IF IsImmediateOrOldObject(w) THEN w
  ELSE IF IsForwardingCorpse(m, w) THEN target(m, w)
  ELSE nil

RECURSIVE MournWeakList(_, _)
MournWeakList(m, list) ==
  IF list = <<>> THEN m
  ELSE LET w == Head(list)
           slots == SlotRange(WeakArrayFrom(m, w), WeakArrayTo(m, w))
       IN MournWeakList([a \in WordAddrs |->
                           IF a \in slots THEN MournWeakPointer(m, m[a]) ELSE m[a]],
                        Tail(list))

\* where the object r of the previous semispace is now (0: collected)
Forwarded(m, r) ==
  IF r = 0 THEN 0
  ELSE IF IsImmediateOrOldObject(r) THEN r
  ELSE IF IsForwardingCorpse(m, r) THEN target(m, r)
  ELSE 0

\* the end of a scavenge: mourn the ephemerons and weak arrays left on the
\* lists, then resume the mutator
FinishScavenge ==
  LET m1 == MournWeakList(MournEphemeronList(mem, gc.eph), gc.weak)
  IN /\ pc = "scan"
     /\ AtFixedPoint
     /\ mem' = m1
     /\ gc' = IdleGC
     /\ pc' = "mutator"
     /\ nGC' = nGC + 1
     /\ ident' = [i \in 1 .. Len(ident) |-> Forwarded(m1, ident[i])]
     /\ UNCHANGED <<top, space, roots, nEdges, lim, pureVars, asked, firstHash, lastHash, pre, walked>>

(***************************************************************************)
(* Heap::Walk                                                              *)
(***************************************************************************)
RECURSIVE WalkRange(_, _, _)
\* the objects between a and end in address order, forwarding corpses skipped
WalkRange(m, a, end) ==
  IF a >= end THEN <<>>
  ELSE LET obj == FromAddr(a)
           size == HeapSize(m, obj)
       IN IF size <= 0 THEN <<>>
          ELSE (IF IsForwardingCorpse(m, obj) THEN <<>> ELSE <<obj>>)
               \o WalkRange(m, a + size, end)

\* every object of new space up to the frontier, then every object of old space
WalkHeap(m, sp, t) == WalkRange(m, SemiStart(sp), t) \o WalkRange(m, OldStart, OldEnd)

Walk ==
  /\ MutatorRuns
  /\ lim.walk
  /\ walked = NotWalked
  /\ walked' = WalkHeap(mem, space, top)
  /\ UNCHANGED <<mem, top, space, roots, pc, gc, nGC, nEdges, lim, pureVars, ident, asked, firstHash, lastHash, pre>>

(***************************************************************************)
(* The heap as a state machine                                             *)
(***************************************************************************)
heapVars == <<mem, top, space, roots, pc, gc, nGC, nEdges, lim, ident, asked, firstHash, lastHash, pre, walked>>
vars == <<mem, top, space, roots, pc, gc, nGC, nEdges, lim, pureVars, ident, asked, firstHash, lastHash, pre, walked>>

HeapInit ==
  /\ mem = InitializeObject([a \in WordAddrs |-> 0], OldStart,
                            kFirstRegularObjectCid, kObjectAlignment)
  /\ top = SemiStart(0)
  /\ space = 0
  /\ roots = [i \in 1 .. NumRoots |-> nil]
  /\ pc = "mutator"
  /\ gc = IdleGC
  /\ nGC = 0
  /\ nEdges = 0
  /\ lim \in Profiles
  /\ ident = <<>>
  /\ asked = <<>>
  /\ firstHash = <<>>
  /\ lastHash = <<>>
  /\ pre = NoSnapshot
  /\ walked = NotWalked

Init ==
  /\ HeapInit
  /\ made = NoneMade
  /\ laid = NoneLaid
  /\ probe = Unused
  /\ act = Unused
  /\ sleep = Unused
  /\ search = Unused

Next ==
  \/ \E q \in AllocRequests : Allocate(q[1], q[2], q[3])
  \/ \E obj \in Known : \E a \in StoreSlots(mem, obj) : \E v \in Known : Store(obj, a, v)
  \/ \E i \in 1 .. NumRoots : \E v \in Known \cup {nil} : SetRoot(i, v)
  \/ \E i \in 1 .. Len(ident) : IdentityHash(i)
  \/ Walk
  \/ StartScavenge
  \/ ScavengeRoots
  \/ ScanObject
  \/ ProcessEphemeronList
  \/ FinishScavenge

Spec == Init /\ [][Next]_vars

(***************************************************************************)
(* What a collection must preserve, stated on the heap as it was when the  *)
(* scavenge started (pre) and as the mutator finds it afterwards.          *)
(***************************************************************************)
PostScavenge == pc = "mutator" /\ pre.taken

NewRefsIn(m, slots) == {m[a] : a \in slots} \ {w \in {m[a] : a \in slots} : IsImmediateOrOldObject(w)}

\* is the key of ephemeron e live, given the live objects R?
KeyLive(m, e, R) == IsImmediateOrOldObject(m[key_ptr(e)]) \/ m[key_ptr(e)] \in R

\* the slots of o through which the trace continues, given the live objects R
TracedSlots(m, o, R) ==
  IF cid(m, o) = kWeakArrayCid THEN {}
  ELSE IF cid(m, o) = kEphemeronCid
  THEN (IF KeyLive(m, o, R) THEN PointerSlots(m, o) ELSE {})
  ELSE PointerSlots(m, o)

RECURSIVE Trace(_, _)
\* the least set holding R and closed under TracedSlots
Trace(m, R) ==
  LET more == R \cup UNION {NewRefsIn(m, TracedSlots(m, o, R)) : o \in R}
  IN IF more = R THEN R ELSE Trace(m, more)

\* the objects of the snapshot that are live: reached from the roots, never
\* through a weak array element, and through an ephemeron's slots only when
\* its key is live
Live == Trace(pre.mem, {pre.roots[i] : i \in 1 .. Len(pre.roots)}
                       \ {w \in {pre.roots[i] : i \in 1 .. Len(pre.roots)} :
                            IsImmediateOrOldObject(w)})

\* the objects reached from the roots through array elements only
RECURSIVE TraceArrays(_, _)
TraceArrays(m, R) ==
  LET more == R \cup UNION {NewRefsIn(m, PointerSlots(m, o)) : o \in {x \in R : IsArray(m, x)}}
  IN IF more = R THEN R ELSE TraceArrays(m, more)

LiveWithoutEphemerons ==
  TraceArrays(pre.mem, {pre.roots[i] : i \in 1 .. Len(pre.roots)}
                       \ {w \in {pre.roots[i] : i \in 1 .. Len(pre.roots)} :
                            IsImmediateOrOldObject(w)})

\* the objects found in new space after the collection
PostObjs ==
  LET w == WalkRange(mem, SemiStart(space), top) IN {w[i] : i \in 1 .. Len(w)}

Bijections(S, T) ==
  {f \in [S -> T] : (\A x, y \in S : f[x] = f[y] => x = y) /\ (\A t \in T : \E x \in S : f[x] = t)}

\* the value a slot that held v must hold once its referent has moved by f
Image(f, v) ==
  IF IsImmediateOrOldObject(v) THEN v ELSE IF v \in DOMAIN f THEN f[v] ELSE -1

\* the slot of the copy f[o] that corresponds to slot a of o
Moved(f, o, a) == a - Addr(o) + Addr(f[o])

\* header (size, class id, flag bits), identity hash and element count agree
SameObject(f, o) ==
  /\ mem[Addr(f[o])] = pre.mem[Addr(o)]
  /\ identity_hash(mem, f[o]) = identity_hash(pre.mem, o)
  /\ cid(pre.mem, o) \in {kArrayCid, kWeakArrayCid}
       => mem[ArraySizeAddr(f[o])] = pre.mem[ArraySizeAddr(o)]

RootsMoved(f) == \A i \in 1 .. Len(roots) : roots[i] = Image(f, pre.roots[i])

SlotsMoved(f, o, slots) == \A a \in slots : mem[Moved(f, o, a)] = Image(f, pre.mem[a])

\* the ways to pair the live objects with the objects found afterwards so
\* that objects, roots and traced slots all agree
Copies ==
  {f \in Bijections(Live, PostObjs) :
     /\ RootsMoved(f)
     /\ \A o \in Live : SameObject(f, o) /\ SlotsMoved(f, o, TracedSlots(pre.mem, o, Live))}

\* C1 (as amended): after a collection the live objects have been copied one
\* for one: same header, identity hash and element count, every root and
\* every traced slot (array elements, slots of ephemerons with a live key)
\* holds the copy of its referent, small integers and old references as
\* they were.
C1_GraphPreserved == PostScavenge => Copies # {}

\* C1 (as claimed): the same for every slot of the pointers range of every
\* live object, weak array elements and ephemeron slots included.
C1_EverySlotPreserved ==
  PostScavenge =>
    \E f \in Copies : \A o \in Live : SlotsMoved(f, o, PointerSlots(pre.mem, o))

\* two live arrays that refer to each other have been collected
C1_Witness ==
  /\ PostScavenge
  /\ \E a, b \in Live :
       /\ a # b /\ IsArray(pre.mem, a) /\ IsArray(pre.mem, b)
       /\ pre.mem[ArrayFrom(pre.mem, a)] = b
       /\ pre.mem[ArrayFrom(pre.mem, b)] = a

\* C2: after a collection every element of a live weak array holds the copy
\* of its referent when the referent is live, nil when it is not, and what
\* it held when that was a small integer or an old object; an object that
\* only weak elements refer to has no copy.
C2_WeakElements ==
  PostScavenge =>
    \E f \in Copies :
      \A w \in {o \in Live : IsWeakArray(pre.mem, o)} :
        \A a \in PointerSlots(pre.mem, w) :
          LET v == pre.mem[a] IN
          mem[Moved(f, w, a)] =
            IF IsImmediateOrOldObject(v) \/ v \in Live THEN Image(f, v) ELSE nil

\* a live weak array whose element referred to an object that is not live
C2_Witness ==
  /\ PostScavenge
  /\ \E w \in Live :
       /\ IsWeakArray(pre.mem, w)
       /\ ~IsImmediateOrOldObject(pre.mem[WeakArrayFrom(pre.mem, w)])
       /\ pre.mem[WeakArrayFrom(pre.mem, w)] \notin Live
       /\ pre.mem[WeakArrayFrom(pre.mem, w)] \in pre.objs

\* C3 (as amended): after a collection a live ephemeron whose key is not
\* live (not reached by the trace, which follows an ephemeron's slots only
\* when that ephemeron's key is live) has key and value nil; one whose key is
\* live holds the copies of key and value.
C3_Ephemerons ==
  PostScavenge =>
    \E f \in Copies :
      \A e \in {o \in Live : IsEphemeron(pre.mem, o)} :
        IF KeyLive(pre.mem, e, Live)
        THEN /\ mem[key_ptr(f[e])] = Image(f, pre.mem[key_ptr(e)])
             /\ mem[value_ptr(f[e])] = Image(f, pre.mem[value_ptr(e)])
             /\ IsImmediateOrOldObject(pre.mem[value_ptr(e)])
                  \/ mem[value_ptr(f[e])] \in PostObjs
        ELSE mem[key_ptr(f[e])] = nil /\ mem[value_ptr(f[e])] = nil

\* C3 (as claimed): a live ephemeron whose key is reached only along paths
\* that pass through an ephemeron has key and value nil.
C3_NilUnlessReachedWithoutEphemerons ==
  PostScavenge =>
    \E f \in Copies :
      \A e \in {o \in Live : IsEphemeron(pre.mem, o)} :
        (~IsImmediateOrOldObject(pre.mem[key_ptr(e)])
         /\ pre.mem[key_ptr(e)] \notin LiveWithoutEphemerons)
          => mem[key_ptr(f[e])] = nil /\ mem[value_ptr(f[e])] = nil

\* a live ephemeron with a key that was not live, and one with a live key
\* in new space, have been collected
C3_Witness ==
  /\ PostScavenge
  /\ \E e \in Live :
       /\ IsEphemeron(pre.mem, e)
       /\ ~KeyLive(pre.mem, e, Live)
       /\ pre.mem[value_ptr(e)] \in Live

C5_WalkVisitsEachObjectOnce ==
  walked # NotWalked =>
    /\ \A i, j \in 1 .. Len(walked) : walked[i] = walked[j] => i = j
    /\ {walked[i] : i \in 1 .. Len(walked)} = Known \cup {nil}
    /\ \A i \in 1 .. Len(walked) :
         /\ IsHeapObject(walked[i])
         /\ ~IsForwardingCorpse(mem, walked[i])
         /\ IsNewObject(walked[i]) =>
              /\ Addr(walked[i]) >= SemiStart(space)
              /\ Addr(walked[i]) + HeapSize(mem, walked[i]) <= top

\* a walk after a collection that left corpses behind and two objects alive
C5_Witness ==
  /\ walked # NotWalked
  /\ nGC > 0
  /\ Len(walked) >= 3
  /\ \E a \in {x \in WordAddrs : x >= SemiStart(1 - space) /\ x < SemiEnd(1 - space)
                                 /\ x % kObjectAlignment = kNewObjectAlignmentOffset} :
       IsForwardingCorpse(mem, FromAddr(a))

\* C6: every allocation answers a tagged reference to an object in the
\* current semispace of new space, at the old frontier, whose header carries
\* the class id asked for with the mark and canonical bits clear and the
\* rounded size, and whose identity-hash word is zero.
C6_AllocateInitializes ==
  [][Len(ident') > Len(ident) =>
       LET obj == ident'[Len(ident')] IN
       /\ IsHeapObject(obj) /\ IsNewObject(obj)
       /\ Addr(obj) = top /\ Addr(obj) >= SemiStart(space)
       /\ top' <= SemiEnd(space)
       /\ cid(mem', obj) = asked'[Len(asked')]
       /\ ~is_marked(mem', obj) /\ ~is_canonical(mem', obj)
       /\ Addr(obj) + HeapSize(mem', obj) = top'
       /\ identity_hash(mem', obj) = 0]_vars

\* an object allocated where an earlier collection had left a corpse
C6_Witness ==
  /\ pc = "mutator" /\ nGC = MaxCollections /\ ~pre.taken
  /\ Len(ident) > 0
  /\ ident[Len(ident)] = FromAddr(SemiStart(space))
  /\ firstHash[Len(ident)] = -1
  /\ top > SemiStart(space)

\* C7: an identity hash that has been asked for is nonzero, every later
\* query answers the same value, and the object carries that value in its
\* hash word wherever collections have moved it.
C7_IdentityHashStable ==
  pc = "mutator" =>
    \A i \in 1 .. Len(ident) :
      firstHash[i] # -1 =>
        /\ firstHash[i] # 0
        /\ lastHash[i] = firstHash[i]
        /\ ident[i] # 0 => identity_hash(mem, ident[i]) = firstHash[i]

\* an object whose hash was asked for and that every collection has moved
C7_Witness ==
  /\ pc = "mutator" /\ nGC = MaxCollections
  /\ \E i \in 1 .. Len(ident) :
       /\ firstHash[i] > 0
       /\ ident[i] # 0
       /\ identity_hash(mem, ident[i]) = firstHash[i]

(***************************************************************************)
(* Small integers on their own: SmallInteger::New and SmallInteger::value  *)
(* applied to integers around the ends of the small-integer range, around  *)
(* zero, and outside the range up to the ends of intptr_t.                 *)
(***************************************************************************)
\* how far from each end of the range, and from zero, the arguments reach
SmiSpread == 12

SmiArguments ==
  UNION {{kSmiMin + d, kSmiMax - d, d, -d, kSmiMax + 1 + d, kSmiMin - 1 - d} : d \in 0 .. SmiSpread}
    \cup {kMaxInt32, kMinInt32}

\* SmallInteger::New(v): there is no check of v
New(v) ==
  /\ made' = [step |-> "new", v |-> v, word |-> SmallIntegerNew(v), value |-> 0]
  /\ UNCHANGED <<heapVars, laid, probe, act, sleep, search>>

\* SmallInteger::value() of the word New answered
Value ==
  /\ made.step = "new"
  /\ IsSmallInteger(made.word)
  /\ made' = [made EXCEPT !.step = "value", !.value = SmallIntegerValue(made.word)]
  /\ UNCHANGED <<heapVars, laid, probe, act, sleep, search>>

NextTagged ==
  \/ \E v \in SmiArguments : New(v)
  \/ Value

SpecTagged == Init /\ [][NextTagged]_vars

\* C8: for v in [kSmiMin, kSmiMax] the word SmallInteger::New(v) answers has
\* low bit 0, is a small integer and no heap object, equals v shifted left
\* by one, and value() of it answers v.
C8_SmallIntegerRoundTrip ==
  (made.step # "none" /\ IsSmiValue(made.v)) =>
    /\ made.word % 2 = 0
    /\ IsSmallInteger(made.word) /\ ~IsHeapObject(made.word)
    /\ made.word = made.v * Pow2(kSmiTagShift)
    /\ made.word >= kMinInt32 /\ made.word <= kMaxInt32
    /\ made.step = "value" => made.value = made.v

\* kSmiMax has made the round trip
C8_Witness ==
  /\ made.step = "value"
  /\ made.v = kSmiMax
  /\ made.word = kMaxInt32 - 1
  /\ made.value = kSmiMax

\* C9 (as claimed): SmallInteger::New answers a word only for arguments in
\* [kSmiMin, kSmiMax], so no word it answers decodes to anything but its
\* argument.
C9_OutOfRangeNeverAnswered ==
  /\ made.step # "none" => IsSmiValue(made.v)
  /\ made.step = "value" => made.value = made.v

(***************************************************************************)
(* Objects on their own: one object of each kind laid out in a region big  *)
(* enough for the largest, and the range Object::Pointers answers for it.  *)
(* The counts are the small ones, and those that put the size of the       *)
(* object just below, at and just above 2^kSizeFieldSize allocation units. *)
(***************************************************************************)
\* largest small element, copied-value and slot count of the objects laid out
MaxCount == 20
\* how many words below and above the largest recordable size the others reach
SizedSpread == 8

\* the least size in bytes that the size field cannot record
FirstOverflowSize == Pow2(kSizeFieldSize) * kObjectAlignment

LaidCounts ==
  (0 .. MaxCount)
    \cup {FirstOverflowSize \div kWordSize + d : d \in (0 - SizedSpread) .. SizedSpread}

LaidAt == kObjectAlignment + kNewObjectAlignmentOffset
LaidBytes ==
  AllocationSize(SizeofActivation + MaxCount * kWordSize)
    + AllocationSize(FirstOverflowSize + SizedSpread * kWordSize)
LaidAddrs == {a \in 0 .. (LaidAt + LaidBytes - 1) : a % kWordSize = 0}

\* the region after allocate(bytes, c) and the caller's store of the count
\* word at address countAt (0: the kind has none)
LayOut(c, bytes, n, countAt) ==
  LET m1 == InitializeObject([a \in LaidAddrs |-> 0], LaidAt, c, AllocationSize(bytes))
      m2 == IF countAt = 0 THEN m1 ELSE [m1 EXCEPT ![countAt] = SmallIntegerNew(n)]
  IN /\ laid' = [c |-> c, n |-> n, obj |-> FromAddr(LaidAt), m |-> m2,
                  size |-> AllocationSize(bytes),
                  ok |-> InitializeObjectAsserts(c, AllocationSize(bytes))]
     /\ UNCHANGED <<heapVars, made, probe, act, sleep, search>>

\* allocate(bytes, c) in a build with assertions, when one of the
\* assertions of InitializeObject fails: nothing is written
InitializeFails(c, bytes, n) ==
  /\ ~InitializeObjectAsserts(c, AllocationSize(bytes))
  /\ laid' = [c |-> c, n |-> n, obj |-> FromAddr(LaidAt), m |-> [a \in LaidAddrs |-> 0],
               size |-> AllocationSize(bytes), ok |-> FALSE]
  /\ UNCHANGED <<heapVars, made, probe, act, sleep, search>>

NewArray(n) ==
  LayOut(kArrayCid, SizeofArray + n * kWordSize, n, ArraySizeAddr(FromAddr(LaidAt)))
NewWeakArray(n) ==
  LayOut(kWeakArrayCid, SizeofArray + n * kWordSize, n, ArraySizeAddr(FromAddr(LaidAt)))
NewEphemeron == LayOut(kEphemeronCid, SizeofEphemeron, 0, 0)
NewActivation(depth) ==
  LayOut(kActivationCid, SizeofActivation, depth, stack_depth_ptr(FromAddr(LaidAt)))
NewClosure(n) ==
  LayOut(kClosureCid, SizeofClosure + n * kWordSize, n, num_copied_ptr(FromAddr(LaidAt)))
NewRegularObject(c, n) == LayOut(c, SizeofObject + n * kWordSize, n, 0)

NextLayout ==
  \/ \E n \in LaidCounts : NewArray(n)
  \/ \E n \in LaidCounts : NewWeakArray(n)
  \/ NewEphemeron
  \/ \E depth \in 0 .. (kMaxTemps - 1) : NewActivation(depth)
  \/ \E n \in LaidCounts : NewClosure(n)
  \/ \E n \in LaidCounts :
       \E c \in {kFirstRegularObjectCid, kFirstRegularObjectCid + 1} :
         \/ NewRegularObject(c, n)
         \/ InitializeFails(c, SizeofObject + n * kWordSize, n)

SpecLayout == Init /\ [][NextLayout]_vars

\* slots in the inclusive range <<from, to>>
SlotCount(range) == (range[2] - range[1]) \div kWordSize + 1

\* C10: an object whose header size field is not zero has as many slots in
\* its pointers range as its kind implies: the element count for an array
\* and a weak array (to < from when that is 0), 3 for an ephemeron,
\* 6 + stack_depth for an activation, 4 + num_copied for a closure, and
\* (heap_size - header) / word for a regular object.
C10_PointersCount ==
  (laid.c # kIllegalCid /\ SizeFieldDecode(laid.m[LaidAt]) # 0) =>
    LET range == Pointers(laid.m, laid.obj)
        bytes == SizeFieldDecode(laid.m[LaidAt]) * kObjectAlignment
    IN /\ range[1] > LaidAt /\ range[2] < LaidAt + bytes
       /\ (range[2] - range[1]) % kWordSize = 0
       /\ SlotCount(range) =
            CASE laid.c \in {kArrayCid, kWeakArrayCid} -> laid.n
              [] laid.c = kEphemeronCid -> 3
              [] laid.c = kActivationCid -> 6 + laid.n
              [] laid.c = kClosureCid -> 4 + laid.n
              [] OTHER -> (bytes - 2 * kWordSize) \div kWordSize
       /\ (laid.c \in {kArrayCid, kWeakArrayCid} /\ laid.n = 0) => range[2] < range[1]
       /\ laid.c >= kFirstRegularObjectCid => SlotCount(range) >= laid.n

\* an activation with three temporaries in use has been laid out
C10_Witness ==
  /\ laid.c = kActivationCid
  /\ laid.n = 3
  /\ stack_depth(laid.m, laid.obj) = 3
  /\ SizeFieldDecode(laid.m[LaidAt]) # 0

\* C11 (as amended): an object whose initialisation passes the assertions
\* of InitializeObject reports its allocated size: from the size field when
\* the size is below 2^kSizeFieldSize allocation units, and otherwise, with
\* the size field zero, from its class, which happens only for the built-in
\* kinds (class id below kFirstRegularObjectCid); the initialisation of a
\* regular object of such a size fails an assertion.
C11_HeapSizeOfInitialized ==
  laid.c # kIllegalCid =>
    /\ laid.ok =>
         /\ HeapSize(laid.m, laid.obj) = laid.size
         /\ heap_size(laid.m, laid.obj) = (IF laid.size < FirstOverflowSize THEN laid.size ELSE 0)
         /\ heap_size(laid.m, laid.obj) = 0 => laid.c < kFirstRegularObjectCid
    /\ (laid.c >= kFirstRegularObjectCid /\ laid.size >= FirstOverflowSize) => ~laid.ok

\* C11 (as claimed): every object, a regular object larger than the size
\* field can record included, is initialised and reports its size.
C11_EveryObjectReportsItsSize ==
  laid.c # kIllegalCid =>
    /\ laid.ok
    /\ HeapSize(laid.m, laid.obj) = laid.size

\* an array too large for the size field reports its size from its class
C11_Witness ==
  /\ laid.c = kArrayCid
  /\ laid.ok
  /\ laid.n > MaxCount
  /\ laid.size > FirstOverflowSize
  /\ heap_size(laid.m, laid.obj) = 0
  /\ HeapSize(laid.m, laid.obj) = laid.size

(***************************************************************************)
(* Words on their own: operations that read or rewrite one machine word,   *)
(* applied to sample words.                                                *)
(***************************************************************************)
\* class Method: header_ is a SmallInteger, h its value() as a uword
NumArgs(h) == (h \div Pow2(0)) % 256
NumTemps(h) == (h \div Pow2(8)) % 256
Primitive(h) == (h \div Pow2(16)) % 1024

\* uword am = header >> 28: a logical shift, nothing masked
am(h) ==
  IF h >= 0 THEN h \div Pow2(28) ELSE h \div Pow2(28) + Pow2(kBitsPerWord - 28)

IsPublic(h) == am(h) = 0
IsProtected(h) == am(h) = 1
IsPrivate(h) == am(h) = 2

\* header values: each field at its least and greatest value, the bits
\* between the fields, and the sign of the small integer
MethodHeaders ==
  {a + t * Pow2(8) + q * Pow2(16) + u * Pow2(26) + m * Pow2(28) + sign :
     a \in {0, 255}, t \in {0, 255}, q \in {0, 1023}, u \in {0, 3}, m \in 0 .. 3,
     sign \in {0, kSmiMin}}

\* the accessors of Method applied to a method whose header value is h;
\* asserted: the ASSERT of the access accessors holds
DecodeMethodHeader(h) ==
  /\ probe' = [step |-> "method", h |-> h,
                NumArgs |-> NumArgs(h), NumTemps |-> NumTemps(h), Primitive |-> Primitive(h),
                asserted |-> am(h) \in {0, 1, 2},
                IsPublic |-> IsPublic(h), IsProtected |-> IsProtected(h),
                IsPrivate |-> IsPrivate(h)]
  /\ UNCHANGED <<heapVars, made, laid, act, sleep, search>>

\* One of set_is_marked, set_is_canonical, set_cid applied to an object
\* whose two words are header and hash
ApplySetter(header, hash, setter, value) ==
  LET obj == FromAddr(LaidAt)
      m == [a \in {LaidAt, LaidAt + kWordSize} |-> IF a = LaidAt THEN header ELSE hash]
  IN /\ probe' = [step |-> "setter", setter |-> setter, value |-> value, obj |-> obj,
                   before |-> m,
                   after |-> CASE setter = "set_is_marked" -> set_is_marked(m, obj, value)
                               [] setter = "set_is_canonical" -> set_is_canonical(m, obj, value)
                               [] setter = "set_cid" -> set_cid(m, obj, value)]
     /\ UNCHANGED <<heapVars, made, laid, act, sleep, search>>

\* the tests of class Object on the reference word r
ClassifyWord(r) ==
  /\ probe' = [step |-> "word", r |-> r,
                IsHeapObject |-> IsHeapObject(r), IsSmallInteger |-> IsSmallInteger(r),
                IsOldObject |-> IsOldObject(r), IsNewObject |-> IsNewObject(r),
                IsImmediateOrOldObject |-> IsImmediateOrOldObject(r)]
  /\ UNCHANGED <<heapVars, made, laid, act, sleep, search>>

\* longest string hashed
MaxStringLen == 3

RECURSIVE Xor(_, _)
\* a ^ b for non-negative a and b
Xor(a, b) ==
  IF a = 0 THEN b
  ELSE IF b = 0 THEN a
  ELSE ((a + b) % 2) + 2 * Xor(a \div 2, b \div 2)

\* The low 26 bits of h * 16777619 (2^24 + 403) for h below 2^26, computed
\* in halves of 13 bits.  EnsureHash keeps only the low 26 bits of h in the
\* end, and the low bits of a sum, a product and an exclusive or depend on
\* the low bits of the operands alone, so on them the wrapped product of
\* the build and this one agree.
TimesFnvPrime(h) ==
  LET lo == h % Pow2(13)
      hi == h \div Pow2(13)
  IN (lo * 403 + ((hi * 403) % Pow2(13)) * Pow2(13) + (h % 4) * Pow2(24)) % Pow2(26)

RECURSIVE HashElements(_, _, _)
\* for (i = 0; i < length; i++) { h = h ^ element(i); h = h * 16777619; }
HashElements(h, elements, i) ==
  IF i > Len(elements) THEN h
  ELSE HashElements(TimesFnvPrime(Xor(h, elements[i])), elements, i + 1)

\* a ByteString with these elements, not hashed yet, in a process whose
\* hash_random_ has the low 26 bits salt
NewString(elements, salt) ==
  /\ probe' = [step |-> "string", elements |-> elements, salt |-> salt,
                hash |-> SmallIntegerNew(0), asserted |-> TRUE, answered |-> <<>>]
  /\ UNCHANGED <<heapVars, made, laid, act, sleep, search>>

\* ByteString::EnsureHash; asserted: ASSERT(h != 0) held whenever it ran
EnsureHash ==
  LET h == Xor(HashElements(Len(probe.elements) + 1, probe.elements, 1), probe.salt)
            % Pow2(26)
      hash == IF probe.hash = 0 THEN SmallIntegerNew(h) ELSE probe.hash
  IN /\ probe.step = "string"
     /\ Len(probe.answered) < 2
     /\ probe' = [probe EXCEPT !.hash = hash,
                               !.asserted = @ /\ (probe.hash = 0 => h # 0),
                               !.answered = Append(@, hash)]
     /\ UNCHANGED <<heapVars, made, laid, act, sleep, search>>

NextWords ==
  \/ \E h \in MethodHeaders : DecodeMethodHeader(h)
  \/ \E n \in 0 .. MaxStringLen :
       \E elements \in [1 .. n -> {0, 97, 255}] :
         \E salt \in {0, 1, 403, Pow2(26) - 1} : NewString(elements, salt)
  \/ EnsureHash
  \/ \E high \in {0, 2 * kObjectAlignment, Pow2(kSmiBits), kMaxInt32 - (2 * kObjectAlignment - 1),
                    kMinInt32, 0 - 2 * kObjectAlignment} :
       \E low \in 0 .. (2 * kObjectAlignment - 1) : ClassifyWord(high + low)
  \/ \E mark, canonical \in {0, 1}, flags \in {0, 1}, size \in {0, 255},
          c \in {kForwardingCorpseCid, kFirstRegularObjectCid, Pow2(kClassIdFieldSize - 1) - 1},
          hash \in {0, kSmiMax} :
       LET header == mark * Pow2(kMarkBit) + canonical * Pow2(kCanonicalBit)
                       + flags * (2 + 8 + 16 + 32 + 64 + 128)
                       + size * Pow2(kSizeFieldOffset) + c * Pow2(kClassIdFieldOffset)
       IN \/ \E value \in BOOLEAN : ApplySetter(header, hash, "set_is_marked", value)
          \/ \E value \in BOOLEAN : ApplySetter(header, hash, "set_is_canonical", value)
          \/ \E value \in {kForwardingCorpseCid, kArrayCid, Pow2(kClassIdFieldSize - 1) - 1} :
               ApplySetter(header, hash, "set_cid", value)

SpecWords == Init /\ [][NextWords]_vars

\* C13 (as claimed): the accessors answer bits [0,8), [8,16) and [16,26) of
\* the header, and whenever bits [28,30) encode 0, 1 or 2, exactly one of
\* IsPublic, IsProtected, IsPrivate answers true, the one the two bits
\* name, whatever the other bits of the header are.
C13_ExactlyOneAccessMode ==
  probe.step = "method" =>
    LET mode == Bit(probe.h, 28) + 2 * Bit(probe.h, 29) IN
    /\ probe.NumArgs = LowBits(probe.h, 8)
    /\ probe.NumTemps * Pow2(8) + probe.NumArgs = LowBits(probe.h, 16)
    /\ probe.Primitive * Pow2(16) + probe.NumTemps * Pow2(8) + probe.NumArgs
         = LowBits(probe.h, 26)
    /\ mode \in {0, 1, 2} =>
         /\ probe.asserted
         /\ probe.IsPublic = (mode = 0)
         /\ probe.IsProtected = (mode = 1)
         /\ probe.IsPrivate = (mode = 2)

\* C14 (as claimed): the hash slot of a string is 0 until EnsureHash runs;
\* for every content and every salt EnsureHash then installs a nonzero
\* 26-bit value, and every later call answers that same value.
C14_HashNonzeroAndCached ==
  probe.step = "string" =>
    /\ Len(probe.answered) = 0 => probe.hash = 0
    /\ Len(probe.answered) > 0 =>
         /\ probe.asserted
         /\ IsSmallInteger(probe.hash)
         /\ SmallIntegerValue(probe.hash) > 0
         /\ SmallIntegerValue(probe.hash) < Pow2(26)
         /\ \A i \in 1 .. Len(probe.answered) : probe.answered[i] = probe.hash

\* C17: set_is_marked, set_is_canonical and set_cid each change only their
\* own field of the header (bit kMarkBit, bit kCanonicalBit, the class-id
\* bits), leave every other header bit and the identity-hash word as they
\* were, and the getter of the field then answers the value written.
C17_SettersChangeOwnField ==
  probe.step = "setter" =>
    LET own == CASE probe.setter = "set_is_marked" -> {kMarkBit}
                 [] probe.setter = "set_is_canonical" -> {kCanonicalBit}
                 [] probe.setter = "set_cid" ->
                      kClassIdFieldOffset .. (kClassIdFieldOffset + kClassIdFieldSize - 1)
    IN /\ \A k \in (0 .. (kBitsPerWord - 2)) \ own :
            Bit(probe.after[Addr(probe.obj)], k) = Bit(probe.before[Addr(probe.obj)], k)
       /\ probe.after[Addr(probe.obj)] >= 0
       /\ identity_hash(probe.after, probe.obj) = identity_hash(probe.before, probe.obj)
       /\ probe.setter = "set_is_marked" => is_marked(probe.after, probe.obj) = probe.value
       /\ probe.setter = "set_is_canonical" => is_canonical(probe.after, probe.obj) = probe.value
       /\ probe.setter = "set_cid" => cid(probe.after, probe.obj) = probe.value

\* the canonical bit has been set on a marked object that carries a hash
C17_Witness ==
  /\ probe.step = "setter"
  /\ probe.setter = "set_is_canonical"
  /\ probe.value
  /\ is_marked(probe.before, probe.obj) /\ ~is_canonical(probe.before, probe.obj)
  /\ is_marked(probe.after, probe.obj) /\ is_canonical(probe.after, probe.obj)
  /\ identity_hash(probe.after, probe.obj) = kSmiMax

\* C18: a word that is a heap reference is exactly one of new and old, new
\* exactly when the address bit of weight kWordSize is set; and for every
\* word, IsImmediateOrOldObject answers true exactly when the word is a
\* small integer or an old heap reference.
C18_NewOrOld ==
  probe.step = "word" =>
    /\ probe.IsHeapObject # probe.IsSmallInteger
    /\ probe.IsHeapObject = (probe.r % 2 = 1)
    /\ probe.IsHeapObject =>
         /\ probe.IsNewObject # probe.IsOldObject
         /\ probe.IsNewObject = ((probe.r - kHeapObjectTag) % (2 * kWordSize) >= kWordSize)
    /\ probe.IsImmediateOrOldObject
         = (probe.IsSmallInteger \/ (probe.IsHeapObject /\ probe.IsOldObject))

\* an old heap reference with a negative word value has been examined
C18_Witness ==
  /\ probe.step = "word"
  /\ probe.r < 0
  /\ probe.IsHeapObject /\ probe.IsOldObject /\ ~probe.IsNewObject
  /\ probe.IsImmediateOrOldObject

(***************************************************************************)
(* An activation on its own: the operand-stack operations of class         *)
(* Activation applied, from an empty stack, to an activation followed in   *)
(* memory by a few more words.  Each operation is taken only when its own  *)
(* assertions hold.                                                        *)
(***************************************************************************)
\* operations applied to the activation in one run
MaxOps == 5

\* the activation, its alignment padding, and the words after it
ActAddrs ==
  {a \in LaidAt .. temp_ptr(FromAddr(LaidAt), kMaxTemps + MaxOps) : (a - LaidAt) % kWordSize = 0}

\* the values pushed and stored
ActValues == {SmallIntegerNew(1), SmallIntegerNew(2)}

\* a fresh activation: stack_depth 0, every other slot 0
EnterActivation ==
  /\ act.step = "none"
  /\ act' = [step |-> "run", obj |-> FromAddr(LaidAt), ops |-> 0,
              m |-> [InitializeObject([a \in ActAddrs |-> 0], LaidAt, kActivationCid,
                                      AllocationSize(SizeofActivation))
                       EXCEPT ![stack_depth_ptr(FromAddr(LaidAt))] = SmallIntegerNew(0)],
              op |-> "enter", n |-> 0, v |-> 0, result |-> 0, inside |-> TRUE,
              pre |-> <<>>, preop |-> "none", prev |-> 0, prepre |-> <<>>]
  /\ UNCHANGED <<heapVars, made, laid, probe, sleep, search>>

set_stack_depthOneMore(m, r, d) == [m EXCEPT ![stack_depth_ptr(r)] = SmallIntegerNew(d + 1)]

\* set_stack_depth(SmallInteger::New(d))
set_stack_depth(m, r, d) == [m EXCEPT ![stack_depth_ptr(r)] = SmallIntegerNew(d)]

\* the step of one operation: it left the memory m2 and answered result;
\* inside: every temps_ index it used was below kMaxTemps
Operated(op, n, v, m2, result, inside) ==
  /\ act.step = "run"
  /\ act.ops < MaxOps
  /\ act' = [act EXCEPT !.ops = @ + 1, !.m = m2, !.op = op, !.n = n, !.v = v,
                         !.result = result, !.inside = inside,
                         !.pre = act.m, !.preop = act.op, !.prev = act.v,
                         !.prepre = act.pre]
  /\ UNCHANGED <<heapVars, made, laid, probe, sleep, search>>

Pop ==
  LET depth == stack_depth(act.m, act.obj) IN
  /\ act.step = "run"
  /\ depth > 0
  /\ Operated("Pop", 0, 0, set_stack_depth(act.m, act.obj, depth - 1),
              act.m[temp_ptr(act.obj, depth - 1)], depth - 1 < kMaxTemps)

\* Activation::Stack(depth) in the memory m
Stack(m, r, depth) == m[temp_ptr(r, stack_depth(m, r) - depth - 1)]

StackPut(depth, o) ==
  /\ act.step = "run"
  /\ depth >= 0
  /\ depth < stack_depth(act.m, act.obj)
  /\ Operated("StackPut", depth, o,
              [act.m EXCEPT ![temp_ptr(act.obj, stack_depth(act.m, act.obj) - depth - 1)] = o],
              o, stack_depth(act.m, act.obj) - depth - 1 < kMaxTemps)

\* The store temps_[stack_depth() - 1] = value has no assertion on the
\* index.  With an index of kMaxTemps or more it is a store outside the
\* array: it lands on the word that follows (landed) or has no effect.
PopNAndPush(drop_count, value, landed) ==
  LET m1 == set_stack_depth(act.m, act.obj,
                            stack_depth(act.m, act.obj) - drop_count + 1)
      index == stack_depth(m1, act.obj) - 1
  IN /\ act.step = "run"
     /\ drop_count >= 0
     /\ drop_count <= stack_depth(act.m, act.obj)
     /\ index < kMaxTemps => landed
     /\ Operated("PopNAndPush", drop_count, value,
                 IF landed THEN [m1 EXCEPT ![temp_ptr(act.obj, index)] = value] ELSE m1,
                 0, index < kMaxTemps)

Push(value, landed) == PopNAndPush(0, value, landed)

Drop(drop_count) ==
  /\ act.step = "run"
  /\ drop_count >= 0
  /\ drop_count <= stack_depth(act.m, act.obj)
  /\ Operated("Drop", drop_count, 0,
              set_stack_depth(act.m, act.obj, stack_depth(act.m, act.obj) - drop_count),
              0, TRUE)

Grow(grow_count) ==
  /\ act.step = "run"
  /\ grow_count >= 0
  /\ stack_depth(act.m, act.obj) + grow_count < kMaxTemps
  /\ Operated("Grow", grow_count, 0,
              set_stack_depth(act.m, act.obj, stack_depth(act.m, act.obj) + grow_count),
              0, TRUE)

NextStack ==
  \/ EnterActivation
  \/ Pop
  \/ \E depth \in {0, 1} : \E o \in ActValues : StackPut(depth, o)
  \/ \E drop_count \in {1, 2} : \E value \in ActValues : \E landed \in BOOLEAN :
       PopNAndPush(drop_count, value, landed)
  \/ \E value \in ActValues : \E landed \in BOOLEAN : Push(value, landed)
  \/ \E drop_count \in {0, 1, 2, kMaxTemps - 1} : Drop(drop_count)
  \/ \E grow_count \in {0, 1, kMaxTemps - 2, kMaxTemps - 1} : Grow(grow_count)

SpecStack == Init /\ [][NextStack]_vars

\* the temps_ slots below index n are the same in m1 and m2
SameTempsBelow(m1, m2, r, n) ==
  \A i \in 0 .. (n - 1) : m2[temp_ptr(r, i)] = m1[temp_ptr(r, i)]

\* the laws of the stack operations, for the operations that satisfy inBounds
StackLaws(inBounds) ==
  (act.step = "run" /\ act.op # "enter") =>
    LET before == stack_depth(act.pre, act.obj)
        after == stack_depth(act.m, act.obj)
    IN /\ (act.op = "PopNAndPush" /\ inBounds) =>
            /\ after = before - act.n + 1
            /\ Stack(act.m, act.obj, 0) = act.v
            /\ SameTempsBelow(act.pre, act.m, act.obj, after - 1)
       /\ (act.op = "StackPut" /\ inBounds) =>
            /\ Stack(act.m, act.obj, act.n) = act.v
            /\ after = before
            /\ \A a \in ActAddrs \ {temp_ptr(act.obj, before - act.n - 1)} :
                 act.m[a] = act.pre[a]
       /\ (act.op = "Pop" /\ act.preop = "PopNAndPush" /\ act.pre # <<>>
            /\ stack_depth(act.pre, act.obj) = stack_depth(act.prepre, act.obj) + 1
            /\ inBounds) =>
            /\ act.result = act.prev
            /\ after = stack_depth(act.prepre, act.obj)
            /\ SameTempsBelow(act.prepre, act.m, act.obj, after)

C20_DepthWithinTemps ==
  act.step = "run" =>
    /\ stack_depth(act.m, act.obj) >= 0
    /\ stack_depth(act.m, act.obj) <= kMaxTemps
    /\ act.inside

\* the value a scavenged slot that held w must hold
ForwardedTo(w) == IF IsImmediateOrOldObject(w) THEN w ELSE target(mem, w)

\* C15: when a scavenge has finished, every object of the old semispace is
\* either untouched or a forwarding corpse: class id kForwardingCorpseCid,
\* its target the address of the one copy made of it, in the new semispace,
\* carrying its header and identity hash; no two corpses share a target and
\* there are as many copies as corpses.  Every root, and every slot of the
\* copy of an array, that held a small integer or an old object still holds
\* it, and every one that held a new object holds the target of that
\* object's corpse, so that all slots that referred to one object hold one
\* address.
C15_ForwardedOnce ==
  PostScavenge =>
    LET corpses == {o \in pre.objs : mem[Addr(o)] # pre.mem[Addr(o)]} IN
    /\ \A o \in corpses :
         /\ cid(mem, o) = kForwardingCorpseCid
         /\ IsHeapObject(target(mem, o)) /\ IsNewObject(target(mem, o))
         /\ Addr(target(mem, o)) >= SemiStart(space) /\ Addr(target(mem, o)) < top
         /\ mem[Addr(target(mem, o))] = pre.mem[Addr(o)]
         /\ identity_hash(mem, target(mem, o)) = identity_hash(pre.mem, o)
    /\ \A o1, o2 \in corpses : target(mem, o1) = target(mem, o2) => o1 = o2
    /\ PostObjs = {target(mem, o) : o \in corpses}
    /\ \A i \in 1 .. Len(roots) :
         /\ roots[i] = ForwardedTo(pre.roots[i])
         /\ ~IsImmediateOrOldObject(pre.roots[i]) => pre.roots[i] \in corpses
    /\ \A o \in {x \in corpses : IsArray(pre.mem, x)} :
         \A a \in PointerSlots(pre.mem, o) :
           /\ mem[a - Addr(o) + Addr(target(mem, o))] = ForwardedTo(pre.mem[a])
           /\ ~IsImmediateOrOldObject(pre.mem[a]) => pre.mem[a] \in corpses

\* an object that two roots and an array element referred to, next to a
\* root that held an old object, has been scavenged
C15_Witness ==
  /\ PostScavenge
  /\ \E o \in pre.objs :
       /\ IsForwardingCorpse(mem, o)
       /\ \E x \in pre.objs :
            /\ IsArray(pre.mem, x)
            /\ pre.mem[ArrayFrom(pre.mem, x)] = o
            /\ IsForwardingCorpse(mem, x)
            /\ mem[ArrayFrom(mem, target(mem, x))] = target(mem, o)
       /\ \E i, j \in 1 .. Len(roots) :
            /\ i # j
            /\ pre.roots[i] = o
            /\ roots[i] = target(mem, o)
            /\ (pre.roots[j] = o /\ roots[j] = roots[i])
                 \/ (pre.roots[j] = nil /\ roots[j] = pre.roots[j])

(***************************************************************************)
(* Collections on their own: the heap is one the mutator has built (up to  *)
(* MaxAllocs arrays and ephemerons, up to MaxEdges references in roots and *)
(* slots), the mutator is stopped, and the collector's steps are taken as  *)
(* long as one is possible.                                                *)
(***************************************************************************)
RECURSIVE Built(_, _, _, _)
\* the heap after allocating objects of the class ids kinds[i], ..., in turn
Built(m, t, kinds, i) ==
  IF i > Len(kinds) THEN [mem |-> m, top |-> t, ident |-> <<>>]
  ELSE LET q == CHOOSE x \in AllocRequests : x[1] = kinds[i]
           size == AllocationSize(q[2])
           m1 == AllocateIn(m, t, size, q[1])
           m2 == IF q[1] = kArrayCid
                 THEN [m1 EXCEPT ![ArraySizeAddr(FromAddr(t))] = SmallIntegerNew(q[3])]
                 ELSE m1
           rest == Built(m2, t + size, kinds, i + 1)
       IN [rest EXCEPT !.ident = <<FromAddr(t)>> \o @]

\* the heaps of b's objects with the first objects in the roots and
\* references stored in the slots of these, MaxEdges references at most in all
HeapsOf(b) ==
  LET objs == {b.ident[i] : i \in 1 .. Len(b.ident)}
      slots == UNION {StoreSlots(b.mem, b.ident[i]) : i \in 1 .. NumRoots}
      Edges(stored) == Cardinality({a \in slots : stored[a] # 0}) + NumRoots
  IN {[mem |-> [a \in WordAddrs |-> IF a \in slots THEN stored[a] ELSE b.mem[a]],
       top |-> b.top, ident |-> b.ident, roots |-> [i \in 1 .. NumRoots |-> b.ident[i]],
       nEdges |-> Edges(stored)] :
        stored \in {x \in [slots -> objs \cup {0}] : Edges(x) <= MaxEdges}}

CollectingHeaps ==
  LET nilHeap == InitializeObject([a \in WordAddrs |-> 0], OldStart,
                                  kFirstRegularObjectCid, kObjectAlignment)
  IN UNION {HeapsOf(Built(nilHeap, SemiStart(0), kinds, 1)) :
              kinds \in {k \in [1 .. MaxAllocs -> {kArrayCid, kEphemeronCid}] :
                           k[MaxAllocs] = kArrayCid}}

InitCollecting ==
  \E h \in CollectingHeaps :
    /\ mem = h.mem
    /\ top = h.top
    /\ space = 0
    /\ roots = h.roots
    /\ pc = "mutator"
    /\ gc = IdleGC
    /\ nGC = 0
    /\ nEdges = h.nEdges
    /\ lim = [allocs |-> MaxAllocs, edges |-> MaxEdges, hashed |-> 0, gcs |-> 1,
               walk |-> FALSE, after |-> FALSE]
    /\ ident = h.ident
    /\ asked = [i \in 1 .. MaxAllocs |-> cid(h.mem, h.ident[i])]
    /\ firstHash = [i \in 1 .. MaxAllocs |-> -1]
    /\ lastHash = [i \in 1 .. MaxAllocs |-> -1]
    /\ pre = NoSnapshot
    /\ walked = NotWalked
    /\ made = NoneMade /\ laid = NoneLaid /\ probe = Unused /\ act = Unused
    /\ sleep = Unused /\ search = Unused

NextCollecting ==
  \/ StartScavenge
  \/ ScavengeRoots
  \/ ScanObject
  \/ ProcessEphemeronList
  \/ FinishScavenge

SpecCollecting == InitCollecting /\ [][NextCollecting]_vars /\ WF_vars(NextCollecting)

\* has the object w been forwarded, or is it outside new space?
Marked(w) == w % 2 = 0 \/ IsOldObject(w) \/ cid(mem, w) = kForwardingCorpseCid

kMillisecondsPerSecond == 1000
kMicrosecondsPerMillisecond == 1000
kMicrosecondsPerSecond == kMicrosecondsPerMillisecond * kMillisecondsPerSecond
kNanosecondsPerMicrosecond == 1000
kNanosecondsPerSecond == kNanosecondsPerMicrosecond * kMicrosecondsPerSecond

\* 0x7FFFFFFFFFFFFFFF = 9 223 372 036 854 775 807
kMaxInt64 == <<807, 775, 854, 36, 372, 223, 9, 0>>

NumGroups == Len(kMaxInt64)
GroupBase == kNanosecondsPerMicrosecond

\* the int64_t of value n, for 0 <= n <= kMaxInt32
Wide(n) ==
  [i \in 1 .. NumGroups |-> IF i > 4 THEN 0 ELSE (n \div GroupBase ^ (i - 1)) % GroupBase]

\* x < y
WideLess(x, y) ==
  \E i \in 1 .. NumGroups :
    /\ x[i] < y[i]
    /\ \A j \in (i + 1) .. NumGroups : x[j] = y[j]

RECURSIVE Borrow(_, _, _)
\* what the subtraction x - y borrows from group i + 1
Borrow(x, y, i) ==
  IF i = 0 THEN 0
  ELSE IF x[i] - y[i] - Borrow(x, y, i - 1) < 0 THEN 1 ELSE 0

\* x - y, for y <= x
WideMinus(x, y) ==
  [i \in 1 .. NumGroups |-> (x[i] - y[i] - Borrow(x, y, i - 1)) % GroupBase]

\* x / GroupBase^k, and x * GroupBase^k for a product of NumGroups groups
\* at most
GroupsDown(x, k) == [i \in 1 .. NumGroups |-> IF i + k <= NumGroups THEN x[i + k] ELSE 0]
GroupsUp(x, k) == [i \in 1 .. NumGroups |-> IF i > k THEN x[i - k] ELSE 0]

\* static_cast<int32_t>(x), for x <= kMaxInt32
Narrow(x) ==
  x[1] + GroupBase * x[2] + GroupBase ^ 2 * x[3] + GroupBase ^ 3 * x[4]

RECURSIVE LowHalves(_, _, _, _)
\* the low 32 bits of x as two halves of 16 bits, groups i down to 1 still
\* to be taken in
LowHalves(x, i, hi, lo) ==
  IF i = 0 THEN <<hi, lo>>
  ELSE LET l == lo * GroupBase + x[i]
           h == hi * GroupBase + l \div Pow2(16)
       IN LowHalves(x, i - 1, h % Pow2(16), l % Pow2(16))

\* static_cast<long>(x): long has kBitsPerWord bits, the low bits are kept
\* and read as a signed number
NarrowLong(x) ==
  LET w == LowHalves(x, NumGroups, 0, 0)
  IN IF w[1] >= Pow2(15) THEN (w[1] - Pow2(16)) * Pow2(16) + w[2]
     ELSE w[1] * Pow2(16) + w[2]

\* tv_nsec values a request can hold when its value is not determined
IndeterminateNanos == {-1, 0, kNanosecondsPerSecond - 1, kNanosecondsPerSecond}

\* the request SleepMicros computes for micros >= 0: lines 59 to 67.  The
\* product micros * kNanosecondsPerMicrosecond is a signed overflow when it
\* exceeds kMaxInt64, and tv_nsec is then not determined.
Requests(micros) ==
  LET seconds0 == GroupsDown(micros, 2)
      seconds == IF WideLess(Wide(kMaxInt32), seconds0) THEN Wide(kMaxInt32) ELSE seconds0
      micros1 == WideMinus(micros, GroupsUp(seconds, 2))
      nanos == GroupsUp(micros1, 1)
  IN IF WideLess(kMaxInt64, nanos)
     THEN {[tv_sec |-> Narrow(seconds), tv_nsec |-> n] : n \in IndeterminateNanos}
     ELSE {[tv_sec |-> Narrow(seconds), tv_nsec |-> NarrowLong(nanos)]}

\* nanosleep accepts a request (POSIX: EINVAL when tv_nsec is not in
\* [0, 10^9) or the interval is negative)
ValidRequest(req) ==
  /\ 0 <= req.tv_sec /\ req.tv_sec <= kMaxInt32
  /\ 0 <= req.tv_nsec /\ req.tv_nsec < kNanosecondsPerSecond

\* how often one sleep is interrupted or retried at most
MaxInterrupts == 2

\* what an interrupted nanosleep can report as remaining of req
Remainders(req) ==
  {req, [tv_sec |-> req.tv_sec \div 2, tv_nsec |-> req.tv_nsec],
   [tv_sec |-> 0, tv_nsec |-> req.tv_nsec \div 2]}

\* whole seconds and the microseconds below a second that are asked for
SecondsAsked ==
  {<<0, 0, 0, 0, 0>>, <<1, 0, 0, 0, 0>>, <<646, 483, 147, 2, 0>>, <<647, 483, 147, 2, 0>>,
   <<648, 483, 147, 2, 0>>, <<0, 0, 0, 3, 0>>, <<854, 36, 372, 223, 9>>}
MicrosBelowSecond == {<<0, 0>>, <<1, 0>>, <<999, 999>>, <<807, 775>>}
MicrosAsked ==
  {m \in {u \o sec \o <<0>> : u \in MicrosBelowSecond, sec \in SecondsAsked} :
     ~WideLess(kMaxInt64, m)}

\* OS::SleepMicros(micros) up to the loop
SleepMicros(micros) ==
  /\ sleep = Unused
  /\ \E req \in Requests(micros) :
       sleep' = [step |-> "loop", micros |-> micros, req |-> req, passed |-> {},
                 errnos |-> {}, interrupts |-> 0]
  /\ UNCHANGED <<heapVars, made, laid, probe, act, search>>

\* nanosleep(&req, &rem) returns 0: break
NanosleepReturns ==
  /\ sleep # Unused
  /\ sleep.step = "loop"
  /\ ValidRequest(sleep.req)
  /\ sleep' = [sleep EXCEPT !.step = "slept", !.passed = @ \cup {sleep.req}]
  /\ UNCHANGED <<heapVars, made, laid, probe, act, search>>

\* nanosleep is interrupted: errno is EINTR, req = rem, and again
NanosleepInterrupted ==
  /\ sleep # Unused
  /\ sleep.step = "loop"
  /\ ValidRequest(sleep.req)
  /\ sleep.interrupts < MaxInterrupts
  /\ \E rem \in Remainders(sleep.req) :
       sleep' = [sleep EXCEPT !.req = rem, !.passed = @ \cup {sleep.req},
                              !.errnos = @ \cup {"EINTR"}, !.interrupts = @ + 1]
  /\ UNCHANGED <<heapVars, made, laid, probe, act, search>>

\* nanosleep refuses the request: errno is EINVAL and rem is not written.
\* ASSERT(errno == EINTR) stops a build with assertions; without them
\* req = rem copies a remainder that was never written.
NanosleepRefuses(asserts, nsec) ==
  /\ sleep # Unused
  /\ sleep.step = "loop"
  /\ ~ValidRequest(sleep.req)
  /\ sleep.interrupts < MaxInterrupts
  /\ sleep' = [sleep EXCEPT !.step = IF asserts THEN "assertion failed" ELSE "loop",
                            !.req = IF asserts THEN @ ELSE [@ EXCEPT !.tv_nsec = nsec],
                            !.passed = @ \cup {sleep.req},
                            !.errnos = @ \cup {"EINVAL"}, !.interrupts = @ + 1]
  /\ UNCHANGED <<heapVars, made, laid, probe, act, search>>

NextSleep ==
  \/ \E micros \in MicrosAsked : SleepMicros(micros)
  \/ NanosleepReturns
  \/ NanosleepInterrupted
  \/ \E asserts \in BOOLEAN, nsec \in IndeterminateNanos : NanosleepRefuses(asserts, nsec)

SpecSleep == Init /\ [][NextSleep]_vars

\* C21: for every micros >= 0, also when its whole seconds exceed kMaxInt32,
\* every request SleepMicros passes to nanosleep has tv_sec in
\* [0, kMaxInt32] and tv_nsec in [0, 10^9), so that the only error nanosleep
\* reports is EINTR and ASSERT(errno == EINTR) never fails.
C21_RequestsAlwaysValid ==
  sleep # Unused =>
    /\ \A req \in sleep.passed : ValidRequest(req)
    /\ sleep.step = "loop" => ValidRequest(sleep.req)
    /\ sleep.errnos \subseteq {"EINTR"}
    /\ sleep.step # "assertion failed"

(***************************************************************************)
(* The heap analyzer's search for reference paths (heap_analyzer.cc), run  *)
(* on a heap the mutator has built.                                        *)
(***************************************************************************)
\* class_name(heap, cid): the name in the class table; the classes of the
\* heaps built here are the built-in ones, and that of nil has no name yet
class_name(c) ==
  CASE c = kArrayCid -> "Array"
    [] c = kWeakArrayCid -> "WeakArray"
    [] c = kEphemeronCid -> "Ephemeron"
    [] OTHER -> "Uninitialized class?"

\* the class names a search is asked for; the last is the name of no class
NamesAsked == {"Array", "Ephemeron", "Uninitialized class?", "Nowhere"}

\* the objects Walk visits whose class has the name
find_root(name, m, sp, t) ==
  SelectSeq(WalkHeap(m, sp, t), LAMBDA o : class_name(ClassId(m, o)) = name)

\* seen.find(obj.Addr()) != seen.end(), and the same never finding anything
SeenNever(seen, obj) == FALSE

Seen(seen, obj) == Addr(obj) \in seen

RECURSIVE VisitPointers(_, _, _, _, _, _)
\* for (ptr = a; ptr <= to; ptr++): every heap object not seen before is
\* marked seen and queued with the path that led to it
VisitPointers(m, a, to, previous, seen, queue) ==
  IF a > to THEN [seen |-> seen, queue |-> queue]
  ELSE IF ~IsHeapObject(m[a]) \/ Seen(seen, m[a])
  THEN VisitPointers(m, a + kWordSize, to, previous, seen, queue)
  ELSE VisitPointers(m, a + kWordSize, to, previous, seen \cup {Addr(m[a])},
                     Append(queue, [obj |-> m[a], path |-> <<m[a]>> \o previous]))

\* trace(heap, from_class, to_class) up to its loop
trace(from_class, to_class) ==
  LET found == find_root(from_class, mem, space, top)
  IN /\ pc = "mutator"
     /\ search = Unused
     /\ search' = [step |-> "loop", from_class |-> from_class, to_class |-> to_class,
                   queue |-> [i \in 1 .. Len(found) |-> [obj |-> found[i], path |-> <<found[i]>>]],
                   seen |-> {Addr(found[i]) : i \in 1 .. Len(found)},
                   count |-> 0, pushed |-> found, popped |-> <<>>, printed |-> {}]
     /\ UNCHANGED <<heapVars, made, laid, probe, act, sleep>>

\* one iteration of the loop: the front of the queue is printed with its
\* path when it is of to_class, has its pointers visited otherwise, and
\* leaves the queue
TraceLoop ==
  /\ search.step = "loop"
  /\ search.queue # <<>>
  /\ LET next == Head(search.queue).obj
         previous == Head(search.queue).path
         p == Pointers(mem, next)
         v == VisitPointers(mem, p[1], p[2], previous, search.seen, search.queue)
     IN IF class_name(ClassId(mem, next)) = search.to_class
        THEN search' = [search EXCEPT !.count = @ + 1,
                                      !.printed = @ \cup {previous},
                                      !.popped = Append(@, next),
                                      !.queue = Tail(@)]
        ELSE search' = [search EXCEPT !.count = @ + 1,
                                      !.seen = v.seen,
                                      !.pushed = @ \o [i \in 1 .. (Len(v.queue) - Len(search.queue)) |->
                                                         v.queue[Len(search.queue) + i].obj],
                                      !.popped = Append(@, next),
                                      !.queue = Tail(v.queue)]
  /\ UNCHANGED <<heapVars, made, laid, probe, act, sleep>>

\* the queue is empty: trace returns
TraceReturns ==
  /\ search.step = "loop"
  /\ search.queue = <<>>
  /\ search' = [search EXCEPT !.step = "returned"]
  /\ UNCHANGED <<heapVars, made, laid, probe, act, sleep>>

NextTracing ==
  \/ \E from_class, to_class \in NamesAsked : trace(from_class, to_class)
  \/ TraceLoop
  \/ TraceReturns

\* a search runs until it returns: the analyzer does nothing else meanwhile
SpecTracing == InitCollecting /\ [][NextTracing]_vars /\ WF_vars(NextTracing)

\* every object of the heap: those allocated, and nil
HeapObjects == Known \cup {nil}

RECURSIVE ReachedFrom(_, _)
\* the least set of objects holding R and every heap object that a slot of
\* the pointers range of one of its members refers to
ReachedFrom(m, R) ==
  LET more == R \cup {m[a] : a \in {x \in UNION {PointerSlots(m, o) : o \in R} :
                                      IsHeapObject(m[x])}}
  IN IF more = R THEN R ELSE ReachedFrom(m, more)

\* C22: the analyzer's search terminates on every heap, cyclic ones included
\* (a search in its loop returns); it queues each heap object at most
\* once, by address; and every object it takes from the queue is reached
\* through pointers ranges from an instance of the starting class.
C22_TraceTerminates ==
  /\ (search.step = "loop") ~> (search.step = "returned")
  /\ [](search.step # "none" =>
          \A i, j \in 1 .. Len(search.pushed) :
            Addr(search.pushed[i]) = Addr(search.pushed[j]) => i = j)
  /\ [](search.step # "none" =>
          \A i \in 1 .. Len(search.popped) :
            search.popped[i] \in
              ReachedFrom(mem, {o \in HeapObjects :
                                  class_name(ClassId(mem, o)) = search.from_class}))

\* a search has returned on a heap where two objects refer to each other,
\* after taking both from the queue
C22_Witness ==
  /\ search.step = "returned"
  /\ \E i, j \in 1 .. Len(search.popped) :
       /\ i # j
       /\ \E a \in PointerSlots(mem, search.popped[i]) : mem[a] = search.popped[j]
       /\ \E a \in PointerSlots(mem, search.popped[j]) : mem[a] = search.popped[i]

====
